---- MODULE Spec2Model ----
(***************************************************************************)
(* The delayed-view component of workout-loop-replay                       *)
(* (src/src/components/VideoRecorder.tsx, the current component, lines     *)
(* 261-1016): a frame buffer filled by a capture interval and read by a    *)
(* playback interval, both created with setInterval from React callbacks   *)
(* that close over the state of the render that created them.              *)
(*                                                                         *)
(* A frame is the number of its capture, counted from 1 since the buffer    *)
(* was last cleared; the component stores the JPEG data URL of the frame.  *)
(* An interval is a record holding                                         *)
(* the time elapsed since it was (re)started and the values its callback   *)
(* closed over.  An interval id held by a ref is the one-element sequence  *)
(* of that record, and <<>> is the ref's null.                             *)
(*                                                                         *)
(* The module also covers videoUtils (src/unnamed/part_002): the format    *)
(* negotiation of getResolvedFormat and saveFramesAsVideo, the codec query *)
(* getSupportedCodecs, and the export of the buffer by saveCurrentBuffer.  *)
(***************************************************************************)
EXTENDS Integers, Sequences, FiniteSets

\* ---------------------------------------------------------------- bounds
\* Frames captured per second.  The source multiplies seconds by the literal
\* 10; the model keeps the multiplication and scales the factor down.
FPS == 2
\* Largest positions of the two sliders that the model explores (the source's
\* sliders reach 30 and 60).
MaxDelay == 6
MaxBuffer == 6
\* Number of frames captured before the buffer is cleared again.
CameraFrames == 13
\* Time units in one 100 ms interval period.
Period == 2
\* Number of times Start is pressed in one run of the model.
MaxStarts == 2
\* Number of times the camera is switched in one run of the model.
MaxSwitches == 1

\* ------------------------------------------------------ program constants
MinDelay == 1
MinBuffer == 5
NoFrame == 0
NoError == ""
\* The video element before any stream was attached to it.
NoSource == "none"

\* Slider positions the model explores: the shortest delay, a delay as long as
\* the shortest buffer, and the longest delay.
DelayChoices == {MinDelay, MinBuffer, MaxDelay}
BufferChoices == MinBuffer..MaxBuffer

VARIABLES
    isStreaming,          \* useState(false)
    isPaused,             \* useState(false)
    delaySeconds,         \* useState(6), set by the delay slider
    bufferSeconds,        \* useState(15), set by the buffer-size slider
    frameBuffer,          \* useState<string[]>([])
    currentDelayedFrame,  \* useState<string | null>(null)
    captureIntervalRef,   \* useRef: <<>> or <<interval>>
    playbackIntervalRef,  \* useRef: <<>> or <<interval>>
    orphans,              \* intervals still running whose id no ref holds
    starting,             \* startStream calls waiting at an await
    starts,               \* how many times Start was pressed
    nextFrame,            \* number the next captured frame gets
    sinceCapture,         \* history: time since capture last appended a frame
    errorMessage,         \* useState<string>('')
    facingMode,           \* useState('environment')
    videoSource,          \* the camera of liveVideoRef.current.srcObject
    switching,            \* switchCamera calls waiting at an await
    switches,             \* how many times the camera was switched
    frameSources,         \* history: the camera each frame was drawn from
    lastExposed,          \* history: the frame the last query exposed since
                          \* the last slider move or stop
    isSaving,             \* useState(false)
    saving,               \* the saveFramesAsVideo call in progress, if any
    options,              \* the codec and container handed to videoUtils
    supportedTypes,       \* the types MediaRecorder.isTypeSupported accepts
    resolvedFormat,       \* what getResolvedFormat returned, if it was called
    saveResult,           \* what saveFramesAsVideo selected, if it was called
    supportedCodecs,      \* what getSupportedCodecs returned, if it was called
    resolvedBefore        \* history: every value getResolvedFormat returned

vars == <<isStreaming, isPaused, delaySeconds, bufferSeconds, frameBuffer,
          currentDelayedFrame, captureIntervalRef, playbackIntervalRef,
          orphans, starting, starts, nextFrame, sinceCapture, errorMessage,
          facingMode, videoSource, switching, switches, frameSources,
          lastExposed, isSaving, saving,
          options, supportedTypes, resolvedFormat, saveResult,
          supportedCodecs, resolvedBefore>>

\* The state the format negotiation of videoUtils works on.
format == <<options, supportedTypes, resolvedFormat, saveResult,
            supportedCodecs, resolvedBefore>>

\* The state saveCurrentBuffer works on.
export == <<isSaving, saving>>

\* The state switchCamera works on.
camera == <<facingMode, videoSource, switching, switches>>

\* ------------------------------------------------------------- callbacks
\* setInterval(captureFrame, 100): the callback closes over bufferSeconds and
\* isPaused of the render that created it.
CaptureInterval(b, p) ==
    [kind |-> "capture", elapsed |-> 0, seconds |-> b, isPaused |-> p]

\* setInterval(playDelayedFrames, 100): closes over delaySeconds and isPaused.
PlaybackInterval(d, p) ==
    [kind |-> "playback", elapsed |-> 0, seconds |-> d, isPaused |-> p]

\* Array.prototype.slice(start): the elements from 0-based index start on.
Slice(s, start) == SubSeq(s, start + 1, Len(s))

\* A 0-based array read; reading past the end yields undefined, which the
\* component renders exactly as null.
At(s, i) == IF 0 <= i /\ i < Len(s) THEN s[i + 1] ELSE NoFrame

\* const maxFrames = bufferSeconds * 10
maxFrames(bufSeconds) == bufSeconds * FPS

\* const framesToDelay = delaySeconds * 10
framesToDelay(dSeconds) == dSeconds * FPS

\* A variant of AppendFrame that trims a full buffer at the wrong end.
AppendFrameKeepOldest(prevBuffer, frameData, bufSeconds) ==
    LET newBuffer == Append(prevBuffer, frameData)
    IN  IF Len(newBuffer) > maxFrames(bufSeconds)
        THEN SubSeq(newBuffer, 1, maxFrames(bufSeconds))
        ELSE newBuffer

\* A variant of AppendFrame that puts the new frame in front of the others.
AppendFrameInFront(prevBuffer, frameData, bufSeconds) ==
    LET newBuffer == <<frameData>> \o prevBuffer
    IN  IF Len(newBuffer) > maxFrames(bufSeconds)
        THEN Slice(newBuffer, Len(newBuffer) - maxFrames(bufSeconds))
        ELSE newBuffer

\* The updater captureFrame passes to setFrameBuffer.
AppendFrame(prevBuffer, frameData, bufSeconds) ==
    LET newBuffer == Append(prevBuffer, frameData)
    IN  IF Len(newBuffer) > maxFrames(bufSeconds)
        THEN Slice(newBuffer, Len(newBuffer) - maxFrames(bufSeconds))
        ELSE newBuffer

\* A variant of DelayedFrame that reads one position too early.
DelayedFrameOlder(prevBuffer, shown, dSeconds) ==
    IF Len(prevBuffer) >= framesToDelay(dSeconds)
    THEN At(prevBuffer, Len(prevBuffer) - framesToDelay(dSeconds) - 1)
    ELSE shown

\* A variant of DelayedFrame that waits for one frame more than the delay.
DelayedFrameStrict(prevBuffer, shown, dSeconds) ==
    IF Len(prevBuffer) > framesToDelay(dSeconds)
    THEN At(prevBuffer, Len(prevBuffer) - framesToDelay(dSeconds))
    ELSE shown

\* The updater playDelayedFrames passes to setFrameBuffer: the value it hands
\* to setCurrentDelayedFrame, or the value already shown when it hands none.
DelayedFrame(prevBuffer, shown, dSeconds) ==
    IF Len(prevBuffer) >= framesToDelay(dSeconds)
    THEN At(prevBuffer, Len(prevBuffer) - framesToDelay(dSeconds))
    ELSE shown

\* A variant of KeptBuffer that consumes the oldest frame on every read.
KeptBufferConsumed(prevBuffer) ==
    IF prevBuffer = <<>> THEN prevBuffer ELSE Tail(prevBuffer)

\* The value the updater of playDelayedFrames returns as the next frameBuffer.
KeptBuffer(prevBuffer) == prevBuffer

\* The effect with dependencies [delaySeconds, captureFrame, playDelayedFrames,
\* isStreaming, isPaused]: after a render that changed one of them, an interval
\* whose id the ref holds is cleared and created again from the new callback.
Restarted(ref, changed, streaming, fresh) ==
    IF changed /\ streaming /\ ref # <<>> THEN <<fresh>> ELSE ref

\* ------------------------------------------------------------------ Init
Init ==
    /\ isStreaming = FALSE
    /\ isPaused = FALSE
    /\ delaySeconds \in DelayChoices
    /\ bufferSeconds \in BufferChoices
    /\ frameBuffer = <<>>
    /\ currentDelayedFrame = NoFrame
    /\ captureIntervalRef = <<>>
    /\ playbackIntervalRef = <<>>
    /\ orphans = <<>>
    /\ starting = <<>>
    /\ starts = 0
    /\ nextFrame = 1
    /\ sinceCapture = 0
    /\ errorMessage = NoError
    /\ facingMode = "environment"
    /\ videoSource = NoSource
    /\ switching = <<>>
    /\ switches = 0
    /\ frameSources = <<>>
    /\ lastExposed = NoFrame
    /\ isSaving = FALSE
    /\ saving = <<>>
    /\ options = [codec |-> "av1", container |-> "mp4"]
    /\ supportedTypes = {}
    /\ resolvedFormat = <<>>
    /\ saveResult = <<>>
    /\ supportedCodecs = <<>>
    /\ resolvedBefore = {}

\* ------------------------------------------------------------- intervals
Due(t) == t.elapsed = Period

Rearmed(t) == [t EXCEPT !.elapsed = 0]

Aged(t) == [t EXCEPT !.elapsed = t.elapsed + 1]

\* Every interval that is still running: the two the refs hold, then the rest.
Running == captureIntervalRef \o playbackIntervalRef \o orphans

RemoveAt(s, i) == SubSeq(s, 1, i - 1) \o SubSeq(s, i + 1, Len(s))

\* captureFrame as one interval calls it.  It returns at once when its own
\* isPaused is true.  The video element and the canvas exist while the
\* component is mounted, and the video has a width once play() has resolved,
\* which is before any interval is created.
CaptureFrame(t) ==
    IF t.isPaused
    THEN UNCHANGED <<frameBuffer, nextFrame, sinceCapture, frameSources>>
    ELSE /\ nextFrame <= CameraFrames
         /\ frameBuffer' = AppendFrame(frameBuffer, nextFrame, t.seconds)
         /\ nextFrame' = nextFrame + 1
         /\ sinceCapture' = 0
         /\ frameSources' = Append(frameSources, videoSource)

\* playDelayedFrames as one interval calls it.
PlayDelayedFrames(t) ==
    IF t.isPaused
    THEN UNCHANGED <<frameBuffer, currentDelayedFrame, lastExposed>>
    ELSE /\ currentDelayedFrame' =
                DelayedFrame(frameBuffer, currentDelayedFrame, t.seconds)
         /\ frameBuffer' = KeptBuffer(frameBuffer)
         /\ lastExposed' = DelayedFrame(frameBuffer, lastExposed, t.seconds)

\* --------------------------------------------------------------- actions
\* The delay slider: setDelaySeconds, the render, then the effect.
SetDelaySeconds(d) ==
    /\ d # delaySeconds
    /\ delaySeconds' = d
    /\ captureIntervalRef' = Restarted(captureIntervalRef, TRUE, isStreaming,
                                 CaptureInterval(bufferSeconds, isPaused))
    /\ playbackIntervalRef' = Restarted(playbackIntervalRef, TRUE, isStreaming,
                                  PlaybackInterval(d, isPaused))
    /\ UNCHANGED <<isStreaming, isPaused, bufferSeconds, frameBuffer,
                   currentDelayedFrame, orphans, starting, starts, nextFrame,
                   sinceCapture, errorMessage, camera, frameSources>>
    /\ lastExposed' = NoFrame
    /\ UNCHANGED format
    /\ UNCHANGED export


\* The buffer-size slider: setBufferSeconds, the render, then the effect.
SetBufferSeconds(b) ==
    /\ b # bufferSeconds
    /\ bufferSeconds' = b
    /\ captureIntervalRef' = Restarted(captureIntervalRef, TRUE, isStreaming,
                                 CaptureInterval(b, isPaused))
    /\ playbackIntervalRef' = Restarted(playbackIntervalRef, TRUE, isStreaming,
                                  PlaybackInterval(delaySeconds, isPaused))
    /\ UNCHANGED <<isStreaming, isPaused, delaySeconds, frameBuffer,
                   currentDelayedFrame, orphans, starting, starts, nextFrame,
                   sinceCapture, errorMessage, camera, frameSources>>
    /\ lastExposed' = NoFrame
    /\ UNCHANGED format
    /\ UNCHANGED export


\* Start is pressed (the button is rendered while isStreaming is false):
\* startStream runs up to its first await, holding the callbacks of this render.
StartClick ==
    /\ ~isStreaming
    /\ starts < MaxStarts
    /\ starts' = starts + 1
    /\ starting' = Append(starting, [bufferSeconds |-> bufferSeconds,
                                     delaySeconds |-> delaySeconds,
                                     isPaused |-> isPaused,
                                     facingMode |-> facingMode])
    /\ errorMessage' = NoError
    /\ UNCHANGED <<isStreaming, isPaused, delaySeconds, bufferSeconds,
                   frameBuffer, currentDelayedFrame, captureIntervalRef,
                   playbackIntervalRef, orphans, nextFrame,
                   sinceCapture, camera, frameSources>>
    /\ UNCHANGED lastExposed
    /\ UNCHANGED format
    /\ UNCHANGED export


\* The awaits of one startStream call resolve: setIsStreaming(true), the two
\* setInterval calls whose ids overwrite the refs, then the render and, when
\* isStreaming changed, the effect.
StartResolve(i) ==
    /\ i \in 1..Len(starting)
    /\ LET c == starting[i]
           changed == ~isStreaming
       IN  /\ captureIntervalRef' =
                  Restarted(<<CaptureInterval(c.bufferSeconds, c.isPaused)>>,
                            changed, TRUE,
                            CaptureInterval(bufferSeconds, isPaused))
           /\ playbackIntervalRef' =
                  Restarted(<<PlaybackInterval(c.delaySeconds, c.isPaused)>>,
                            changed, TRUE,
                            PlaybackInterval(delaySeconds, isPaused))
    /\ orphans' = orphans \o captureIntervalRef \o playbackIntervalRef
    /\ isStreaming' = TRUE
    /\ starting' = RemoveAt(starting, i)
    /\ sinceCapture' = 0
    /\ videoSource' = starting[i].facingMode
    /\ errorMessage' = NoError
    /\ UNCHANGED <<isPaused, delaySeconds, bufferSeconds, frameBuffer,
                   currentDelayedFrame, starts, nextFrame, facingMode,
                   switching, switches, frameSources>>
    /\ UNCHANGED lastExposed
    /\ UNCHANGED format
    /\ UNCHANGED export


\* One startStream call ends in its catch block (permission denied, no camera,
\* play() rejected): only the error message changes.  The return of line 361
\* (permission denied) sets a message too.
StartReject(i) ==
    /\ i \in 1..Len(starting)
    /\ starting' = RemoveAt(starting, i)
    /\ errorMessage' = "Failed to access camera. "
    /\ UNCHANGED <<isStreaming, isPaused, delaySeconds, bufferSeconds,
                   frameBuffer, currentDelayedFrame, captureIntervalRef,
                   playbackIntervalRef, orphans, starts, nextFrame,
                   sinceCapture, camera, frameSources>>
    /\ UNCHANGED lastExposed
    /\ UNCHANGED format
    /\ UNCHANGED export


\* Pause is pressed: pauseStream clears the intervals the refs hold.  The
\* effect then finds both refs null.
PauseClick ==
    /\ isStreaming
    /\ ~isPaused
    /\ captureIntervalRef' = <<>>
    /\ playbackIntervalRef' = <<>>
    /\ isPaused' = TRUE
    /\ sinceCapture' = 0
    /\ UNCHANGED <<isStreaming, delaySeconds, bufferSeconds, frameBuffer,
                   currentDelayedFrame, orphans, starting, starts, nextFrame,
                   errorMessage, camera, frameSources>>
    /\ UNCHANGED lastExposed
    /\ UNCHANGED format
    /\ UNCHANGED export


\* Resume is pressed: resumeStream creates both intervals from the callbacks of
\* the paused render and overwrites the refs; after setIsPaused(false) the
\* effect replaces them by intervals made from the new callbacks.
ResumeClick ==
    /\ isStreaming
    /\ isPaused
    /\ captureIntervalRef' =
           Restarted(<<CaptureInterval(bufferSeconds, isPaused)>>, TRUE, TRUE,
                     CaptureInterval(bufferSeconds, FALSE))
    /\ playbackIntervalRef' =
           Restarted(<<PlaybackInterval(delaySeconds, isPaused)>>, TRUE, TRUE,
                     PlaybackInterval(delaySeconds, FALSE))
    /\ orphans' = orphans \o captureIntervalRef \o playbackIntervalRef
    /\ isPaused' = FALSE
    /\ sinceCapture' = 0
    /\ UNCHANGED <<isStreaming, delaySeconds, bufferSeconds, frameBuffer,
                   currentDelayedFrame, starting, starts, nextFrame,
                   errorMessage, camera, frameSources>>
    /\ UNCHANGED lastExposed
    /\ UNCHANGED format
    /\ UNCHANGED export


\* A variant of StopClick that leaves the delayed frame on display.
StopClickKeepsFrame ==
    /\ isStreaming
    /\ captureIntervalRef' = <<>>
    /\ playbackIntervalRef' = <<>>
    /\ isStreaming' = FALSE
    /\ isPaused' = FALSE
    /\ frameBuffer' = <<>>
    /\ nextFrame' = 1
    /\ sinceCapture' = 0
    /\ frameSources' = <<>>
    /\ UNCHANGED <<delaySeconds, bufferSeconds, orphans, starting, starts,
                   errorMessage, camera, currentDelayedFrame>>
    /\ lastExposed' = NoFrame
    /\ UNCHANGED format
    /\ UNCHANGED export


\* Stop is pressed: stopStream calls pauseStream, then clears the state.
StopClick ==
    /\ isStreaming
    /\ captureIntervalRef' = <<>>
    /\ playbackIntervalRef' = <<>>
    /\ isStreaming' = FALSE
    /\ isPaused' = FALSE
    /\ frameBuffer' = <<>>
    /\ currentDelayedFrame' = NoFrame
    /\ nextFrame' = 1
    /\ sinceCapture' = 0
    /\ frameSources' = <<>>
    /\ UNCHANGED <<delaySeconds, bufferSeconds, orphans, starting, starts,
                   errorMessage, camera>>
    /\ lastExposed' = NoFrame
    /\ UNCHANGED format
    /\ UNCHANGED export


\* The capture interval held by the ref fires.
CaptureTick ==
    /\ captureIntervalRef # <<>>
    /\ Due(captureIntervalRef[1])
    /\ CaptureFrame(captureIntervalRef[1])
    /\ captureIntervalRef' = <<Rearmed(captureIntervalRef[1])>>
    /\ UNCHANGED <<isStreaming, isPaused, delaySeconds, bufferSeconds,
                   currentDelayedFrame, playbackIntervalRef, orphans, starting,
                   starts, errorMessage, camera>>
    /\ UNCHANGED lastExposed
    /\ UNCHANGED format
    /\ UNCHANGED export


\* The playback interval held by the ref fires.
PlaybackTick ==
    /\ playbackIntervalRef # <<>>
    /\ Due(playbackIntervalRef[1])
    /\ PlayDelayedFrames(playbackIntervalRef[1])
    /\ playbackIntervalRef' = <<Rearmed(playbackIntervalRef[1])>>
    /\ UNCHANGED <<isStreaming, isPaused, delaySeconds, bufferSeconds,
                   captureIntervalRef, orphans, starting, starts,
                   nextFrame, sinceCapture, errorMessage, camera,
                   frameSources>>
    /\ UNCHANGED format
    /\ UNCHANGED export


\* An interval whose id was overwritten fires: nothing can clear it.
OrphanCaptureTick(i) ==
    /\ i \in 1..Len(orphans)
    /\ orphans[i].kind = "capture"
    /\ Due(orphans[i])
    /\ CaptureFrame(orphans[i])
    /\ orphans' = [orphans EXCEPT ![i] = Rearmed(orphans[i])]
    /\ UNCHANGED <<isStreaming, isPaused, delaySeconds, bufferSeconds,
                   currentDelayedFrame, captureIntervalRef, playbackIntervalRef,
                   starting, starts, errorMessage, camera>>
    /\ UNCHANGED lastExposed
    /\ UNCHANGED format
    /\ UNCHANGED export


OrphanPlaybackTick(i) ==
    /\ i \in 1..Len(orphans)
    /\ orphans[i].kind = "playback"
    /\ Due(orphans[i])
    /\ PlayDelayedFrames(orphans[i])
    /\ orphans' = [orphans EXCEPT ![i] = Rearmed(orphans[i])]
    /\ UNCHANGED <<isStreaming, isPaused, delaySeconds, bufferSeconds,
                   captureIntervalRef, playbackIntervalRef,
                   starting, starts, nextFrame, sinceCapture, errorMessage,
                   camera, frameSources>>
    /\ UNCHANGED format
    /\ UNCHANGED export


\* Capture is on: streaming, not paused, and a capture interval is registered.
CaptureRuns == isStreaming /\ ~isPaused /\ captureIntervalRef # <<>>

\* One unit of time passes.  A due callback runs before more time passes: the
\* callbacks are short and synchronous.
Advance ==
    /\ Running # <<>>
    /\ \A k \in 1..Len(Running) : ~Due(Running[k])
    /\ captureIntervalRef' = [k \in 1..Len(captureIntervalRef) |->
                                  Aged(captureIntervalRef[k])]
    /\ playbackIntervalRef' = [k \in 1..Len(playbackIntervalRef) |->
                                   Aged(playbackIntervalRef[k])]
    /\ orphans' = [k \in 1..Len(orphans) |-> Aged(orphans[k])]
    /\ sinceCapture' = IF CaptureRuns /\ sinceCapture <= Period
                       THEN sinceCapture + 1
                       ELSE sinceCapture
    /\ UNCHANGED <<isStreaming, isPaused, delaySeconds, bufferSeconds,
                   frameBuffer, currentDelayedFrame, starting, starts,
                   nextFrame, errorMessage, camera, frameSources>>
    /\ UNCHANGED lastExposed
    /\ UNCHANGED format
    /\ UNCHANGED export


Next ==
    \/ \E d \in DelayChoices : SetDelaySeconds(d)
    \/ \E b \in BufferChoices : SetBufferSeconds(b)
    \/ StartClick
    \/ \E i \in 1..MaxStarts : StartResolve(i)
    \/ \E i \in 1..MaxStarts : StartReject(i)
    \/ PauseClick
    \/ ResumeClick
    \/ StopClick
    \/ CaptureTick
    \/ PlaybackTick
    \/ \E i \in 1..(2 * MaxStarts) : OrphanCaptureTick(i)
    \/ \E i \in 1..(2 * MaxStarts) : OrphanPlaybackTick(i)
    \/ Advance

Spec == Init /\ [][Next]_vars

\* The component in a run in which Start is pressed once: no interval id is
\* ever overwritten, so no orphan exists.
NextOneStart ==
    \/ \E d \in DelayChoices : SetDelaySeconds(d)
    \/ \E b \in BufferChoices : SetBufferSeconds(b)
    \/ StartClick /\ starts = 0
    \/ StartResolve(1)
    \/ StartReject(1)
    \/ PauseClick
    \/ ResumeClick
    \/ StopClick
    \/ CaptureTick
    \/ PlaybackTick
    \/ Advance

SpecOneStart == Init /\ [][NextOneStart]_vars

\* The component in a run in which Start is pressed once, the camera answers,
\* and from then on nothing is pressed or moved: capture stays unpaused and
\* the two intervals fire whenever they are due.
NextSteady ==
    \/ StartClick /\ starts = 0
    \/ StartResolve(1)
    \/ CaptureTick
    \/ PlaybackTick
    \/ Advance

SpecSteady == Init /\ [][NextSteady]_vars /\ WF_vars(NextSteady)

\* ------------------------------------------------------ switching cameras
\* const newFacingMode = facingMode === 'user' ? 'environment' : 'user'
OtherCamera(mode) == IF mode = "user" THEN "environment" ELSE "user"

\* The switch button is pressed (it is rendered while isStreaming is true):
\* switchCamera sets the new facing mode, stops the tracks of the current
\* stream, whose last picture stays in the video element, and waits for
\* getUserMedia.
SwitchClick ==
    /\ isStreaming
    /\ switches < MaxSwitches
    /\ switches' = switches + 1
    /\ facingMode' = OtherCamera(facingMode)
    /\ switching' = Append(switching,
                           [facingMode |-> facingMode,
                            newFacingMode |-> OtherCamera(facingMode)])
    /\ UNCHANGED <<isStreaming, isPaused, delaySeconds, bufferSeconds,
                   frameBuffer, currentDelayedFrame, captureIntervalRef,
                   playbackIntervalRef, orphans, starting, starts, nextFrame,
                   sinceCapture, errorMessage, videoSource, frameSources>>
    /\ UNCHANGED lastExposed
    /\ UNCHANGED format
    /\ UNCHANGED export


\* The awaits of one switchCamera call resolve: the new stream becomes the
\* source of the video element.
SwitchResolve(i) ==
    /\ i \in 1..Len(switching)
    /\ videoSource' = switching[i].newFacingMode
    /\ switching' = RemoveAt(switching, i)
    /\ UNCHANGED <<isStreaming, isPaused, delaySeconds, bufferSeconds,
                   frameBuffer, currentDelayedFrame, captureIntervalRef,
                   playbackIntervalRef, orphans, starting, starts, nextFrame,
                   sinceCapture, errorMessage, facingMode, switches,
                   frameSources>>
    /\ UNCHANGED lastExposed
    /\ UNCHANGED format
    /\ UNCHANGED export


\* One switchCamera call ends in its catch block: the facing mode is set back
\* to the one of the render that started the call.
SwitchReject(i) ==
    /\ i \in 1..Len(switching)
    /\ facingMode' = switching[i].facingMode
    /\ switching' = RemoveAt(switching, i)
    /\ UNCHANGED <<isStreaming, isPaused, delaySeconds, bufferSeconds,
                   frameBuffer, currentDelayedFrame, captureIntervalRef,
                   playbackIntervalRef, orphans, starting, starts, nextFrame,
                   sinceCapture, errorMessage, videoSource, switches,
                   frameSources>>
    /\ UNCHANGED lastExposed
    /\ UNCHANGED format
    /\ UNCHANGED export


\* The component in a run in which Start is pressed once and the camera may
\* be switched.
NextSwitch ==
    \/ NextOneStart
    \/ SwitchClick
    \/ \E i \in 1..MaxSwitches : SwitchResolve(i)
    \/ \E i \in 1..MaxSwitches : SwitchReject(i)

SpecSwitch == Init /\ [][NextSwitch]_vars

\* ------------------------------------------- the two updaters on their own
\* The updaters of captureFrame and playDelayedFrames applied to any buffer of
\* consecutive frames and any number of seconds, 0 included (delaySeconds is a
\* number; only the slider keeps it at 1 or more).
InitUpdaters ==
    /\ frameBuffer \in {[k \in 1..n |-> k] : n \in 0..CameraFrames}
    /\ nextFrame = Len(frameBuffer) + 1
    /\ delaySeconds \in 0..MaxDelay
    /\ bufferSeconds \in BufferChoices
    /\ currentDelayedFrame = NoFrame
    /\ isStreaming = TRUE
    /\ isPaused = FALSE
    /\ captureIntervalRef = <<>>
    /\ playbackIntervalRef = <<>>
    /\ orphans = <<>>
    /\ starting = <<>>
    /\ starts = 1
    /\ sinceCapture = 0
    /\ errorMessage = NoError
    /\ facingMode = "environment"
    /\ videoSource = facingMode
    /\ switching = <<>>
    /\ switches = 0
    /\ frameSources = [k \in 1..Len(frameBuffer) |-> videoSource]
    /\ lastExposed = NoFrame
    /\ isSaving = FALSE
    /\ saving = <<>>
    /\ options = [codec |-> "av1", container |-> "mp4"]
    /\ supportedTypes = {}
    /\ resolvedFormat = <<>>
    /\ saveResult = <<>>
    /\ supportedCodecs = <<>>
    /\ resolvedBefore = {}

QueryCall ==
    /\ currentDelayedFrame' =
           DelayedFrame(frameBuffer, currentDelayedFrame, delaySeconds)
    /\ frameBuffer' = KeptBuffer(frameBuffer)
    /\ lastExposed' = DelayedFrame(frameBuffer, lastExposed, delaySeconds)
    /\ UNCHANGED <<isStreaming, isPaused, delaySeconds, bufferSeconds,
                   captureIntervalRef, playbackIntervalRef, orphans, starting,
                   starts, nextFrame, sinceCapture, errorMessage, camera,
                   frameSources>>
    /\ UNCHANGED format
    /\ UNCHANGED export


IngestCall ==
    /\ nextFrame <= CameraFrames
    /\ frameBuffer' = AppendFrame(frameBuffer, nextFrame, bufferSeconds)
    /\ nextFrame' = nextFrame + 1
    /\ frameSources' = Append(frameSources, videoSource)
    /\ UNCHANGED <<isStreaming, isPaused, delaySeconds, bufferSeconds,
                   currentDelayedFrame, captureIntervalRef,
                   playbackIntervalRef, orphans, starting, starts,
                   sinceCapture, errorMessage, camera>>
    /\ UNCHANGED lastExposed
    /\ UNCHANGED format
    /\ UNCHANGED export


NextUpdaters == QueryCall \/ IngestCall

SpecUpdaters == InitUpdaters /\ [][NextUpdaters]_vars

\* ------------------------------------------- format negotiation (videoUtils)
\* Number of types the support test accepts at most.
MaxSupported == 3

\* const codecPriority = ['av1', 'hevc', 'h264', 'vp9']
codecPriority == <<"av1", "hevc", "h264", "vp9">>

\* const containerPriority = ['mkv', 'mp4', 'webm']
containerPriority == <<"mkv", "mp4", "webm">>

\* const codecMap
codecMap ==
    [av1 |-> <<
        [type |-> "video/x-matroska; codecs=\"av01.0.05M.08\"", container |-> "mkv"],
        [type |-> "video/mp4; codecs=\"av01.0.05M.08\"", container |-> "mp4"],
        [type |-> "video/webm; codecs=\"av01.0.05M.08\"", container |-> "webm"],
        [type |-> "video/webm; codecs=\"av01.0.08M.08\"", container |-> "webm"],
        [type |-> "video/webm; codecs=\"av01\"", container |-> "webm"],
        [type |-> "video/mp4; codecs=\"av01\"", container |-> "mp4"]>>,
     hevc |-> <<
        [type |-> "video/x-matroska; codecs=\"hev1.1.6.L93.B0\"", container |-> "mkv"],
        [type |-> "video/mp4; codecs=\"hev1.1.6.L93.B0\"", container |-> "mp4"],
        [type |-> "video/mp4; codecs=\"hvc1.1.6.L93.B0\"", container |-> "mp4"]>>,
     h264 |-> <<
        [type |-> "video/x-matroska; codecs=\"avc1.42E01E\"", container |-> "mkv"],
        [type |-> "video/mp4; codecs=\"avc1.42E01E\"", container |-> "mp4"],
        [type |-> "video/webm; codecs=\"h264\"", container |-> "webm"]>>,
     vp9 |-> <<
        [type |-> "video/x-matroska; codecs=\"vp9\"", container |-> "mkv"],
        [type |-> "video/mp4; codecs=\"vp09.00.10.08\"", container |-> "mp4"],
        [type |-> "video/webm; codecs=\"vp9\"", container |-> "webm"]>>]

\* const fallbackTypes
fallbackTypes == <<
    [type |-> "video/x-matroska; codecs=\"hev1.1.6.L93.B0\"", codec |-> "hevc", container |-> "mkv"],
    [type |-> "video/mp4; codecs=\"hev1.1.6.L93.B0\"", codec |-> "hevc", container |-> "mp4"],
    [type |-> "video/mp4; codecs=\"hvc1.1.6.L93.B0\"", codec |-> "hevc", container |-> "mp4"],
    [type |-> "video/x-matroska; codecs=\"avc1.42E01E\"", codec |-> "h264", container |-> "mkv"],
    [type |-> "video/mp4; codecs=\"avc1.42E01E\"", codec |-> "h264", container |-> "mp4"],
    [type |-> "video/webm; codecs=\"h264\"", codec |-> "h264", container |-> "webm"],
    [type |-> "video/x-matroska; codecs=\"vp9\"", codec |-> "vp9", container |-> "mkv"],
    [type |-> "video/mp4; codecs=\"vp09.00.10.08\"", codec |-> "vp9", container |-> "mp4"],
    [type |-> "video/webm; codecs=\"vp9\"", codec |-> "vp9", container |-> "webm"],
    [type |-> "video/webm; codecs=\"vp8\"", codec |-> "vp8", container |-> "webm"],
    [type |-> "video/webm", codec |-> "unknown", container |-> "webm"]>>

\* The elements of a sequence.
Range(s) == {s[k] : k \in 1..Len(s)}

\* getSupportedCodecs: the types whose support makes av1 count as supported.
av1Types == <<
    "video/webm; codecs=\"av01.0.05M.08\"",
    "video/mp4; codecs=\"av01.0.05M.08\"",
    "video/webm; codecs=\"av01.0.08M.08\"",
    "video/mp4; codecs=\"av01.0.08M.08\"",
    "video/webm; codecs=\"av01\"",
    "video/mp4; codecs=\"av01\"">>

\* Every type videoUtils can hand to the support test.
Types ==
    {v.type : v \in UNION {Range(codecMap[c]) : c \in Range(codecPriority)}}
        \cup {f.type : f \in Range(fallbackTypes)}
        \cup Range(av1Types)

\* codec?: 'av1' | 'hevc' | 'h264' | 'vp9' | 'auto'
CodecOptions == Range(codecPriority) \cup {"auto"}

\* container?: 'mp4' | 'mkv' | 'webm' | 'auto'
ContainerOptions == Range(containerPriority) \cup {"auto"}

\* MediaRecorder.isTypeSupported(type)
isTypeSupported(type) == type \in supportedTypes

\* The first element of a sequence as the result of Array.prototype.find or
\* of a loop that breaks at its first hit: <<>> when there is none.
First(s) == IF s = <<>> THEN <<>> ELSE <<s[1]>>

\* codecVariants.find(v => v.container === containerName)
FindContainer(codecVariants, containerName) ==
    First(SelectSeq(codecVariants, LAMBDA v : v.container = containerName))

\* A variant of FirstSupported that keeps the last hit instead of the first.
LastSupported(list) ==
    LET hits == SelectSeq(list, LAMBDA v : isTypeSupported(v.type))
    IN  IF hits = <<>> THEN <<>> ELSE <<hits[Len(hits)]>>

\* for (const variant of list) if (isTypeSupported(variant.type)) { ...; break }
FirstSupported(list) ==
    First(SelectSeq(list, LAMBDA v : isTypeSupported(v.type)))

\* for (const containerName of containerPriority): the variant that find
\* yields for the first container whose variant is supported.
FirstByContainerPriority(codecVariants) ==
    LET hits == SelectSeq(containerPriority, LAMBDA containerName :
                    LET variant == FindContainer(codecVariants, containerName)
                    IN  variant # <<>> /\ isTypeSupported(variant[1].type))
    IN  IF hits = <<>> THEN <<>> ELSE FindContainer(codecVariants, hits[1])

\* for (const codecName of codecPriority) with codecName === codec skipped:
\* the first other codec whose variant for the container is supported.
FirstOtherCodec(codec, container) ==
    First(SelectSeq(codecPriority, LAMBDA codecName :
        /\ codecName # codec
        /\ FindContainer(codecMap[codecName], container) # <<>>
        /\ isTypeSupported(FindContainer(codecMap[codecName], container)[1].type)))

\* String.prototype.toUpperCase on the identifiers that occur.
toUpperCase(str) ==
    CASE str = "av1" -> "AV1"
      [] str = "hevc" -> "HEVC"
      [] str = "h264" -> "H264"
      [] str = "vp9" -> "VP9"
      [] str = "vp8" -> "VP8"
      [] str = "unknown" -> "UNKNOWN"
      [] str = "auto" -> "AUTO"
      [] str = "mkv" -> "MKV"
      [] str = "mp4" -> "MP4"
      [] str = "webm" -> "WEBM"

\* A variant of codecDisplayName that uppercases every identifier.
codecDisplayNameRaw(selectedCodec) == toUpperCase(selectedCodec)

\* const codecDisplayName
codecDisplayName(selectedCodec) ==
    CASE selectedCodec = "av1" -> "AV1"
      [] selectedCodec = "hevc" -> "HEVC"
      [] selectedCodec = "h264" -> "H.264"
      [] selectedCodec = "vp9" -> "VP9"
      [] selectedCodec = "vp8" -> "VP8"
      [] OTHER -> toUpperCase(selectedCodec)

\* const displayName = `${codecDisplayName} (${selectedContainer.toUpperCase()})`
displayName(selectedCodec, selectedContainer) ==
    codecDisplayName(selectedCodec) \o " (" \o toUpperCase(selectedContainer)
        \o ")"

\* saveCurrentBuffer: the format named in the toast after an export, built
\* from the result of saveFramesAsVideo by the same chain of comparisons.
savedFormatName(result) ==
    codecDisplayName(result.codec) \o " (" \o toUpperCase(result.container)
        \o ")"

\* getResolvedFormat, lines 306-331: the loop over codecPriority from its i-th
\* codec on, with the values selected so far.
RECURSIVE ResolveAuto(_, _)
ResolveAuto(i, selected) ==
    IF i > Len(codecPriority)
    THEN selected
    ELSE LET codecName == codecPriority[i]
             codecVariants == codecMap[codecName]
             byPriority == FirstByContainerPriority(codecVariants)
             afterPriority ==
                 IF byPriority # <<>>
                 THEN [codec |-> codecName,
                       container |-> byPriority[1].container]
                 ELSE selected
             any == FirstSupported(codecVariants)
             afterAny ==
                 IF any # <<>>
                 THEN [codec |-> codecName, container |-> any[1].container]
                 ELSE afterPriority
         IN  IF afterPriority.codec # "auto" THEN afterPriority
             ELSE IF afterAny.codec # "auto" THEN afterAny
             ELSE ResolveAuto(i + 1, afterAny)

\* A variant of ResolveExplicit that lets another codec with the requested
\* container win before the exact combination is tried.
ResolveExplicitOtherFirst(codec, container) ==
    LET other == FirstOtherCodec(codec, container)
    IN  IF other # <<>>
        THEN [codec |-> other[1], container |-> container]
        ELSE [codec |-> codec, container |-> container]

\* getResolvedFormat, lines 333-366: codec and container both given.
ResolveExplicit(codec, container) ==
    LET requested == [codec |-> codec, container |-> container]
    IN  IF codec \notin DOMAIN codecMap THEN requested
        ELSE
        LET codecVariants == codecMap[codec]
            exactMatch == FindContainer(codecVariants, container)
            other == FirstOtherCodec(codec, container)
            afterOther ==
                IF other # <<>>
                THEN [codec |-> other[1], container |-> container]
                ELSE requested
            any == FirstSupported(codecVariants)
        IN  IF exactMatch # <<>> /\ isTypeSupported(exactMatch[1].type)
            THEN requested
            ELSE IF afterOther = requested /\ any # <<>>
            THEN [codec |-> codec, container |-> any[1].container]
            ELSE afterOther

\* getResolvedFormat, lines 369-396: the final fallback, entered only while
\* selectedCodec is still 'auto'.
ResolveFallback(selected) ==
    LET fallback == FirstSupported(fallbackTypes)
    IN  IF selected.codec = "auto" /\ fallback # <<>>
        THEN [codec |-> fallback[1].codec, container |-> fallback[1].container]
        ELSE selected

\* A variant of getResolvedFormat that remembers what the last export
\* selected and returns that instead of resolving again.
getResolvedFormatRemembering(codec, container) ==
    LET selected ==
            IF saveResult # <<>>
            THEN [codec |-> saveResult[1].codec,
                  container |-> saveResult[1].container]
            ELSE ResolveFallback(
                     IF codec = "auto" \/ container = "auto"
                     THEN ResolveAuto(1, [codec |-> codec,
                                          container |-> container])
                     ELSE ResolveExplicit(codec, container))
    IN  [codec |-> selected.codec,
         container |-> selected.container,
         displayName |-> displayName(selected.codec, selected.container)]

\* export const getResolvedFormat
getResolvedFormat(codec, container) ==
    LET selected ==
            ResolveFallback(
                IF codec = "auto" \/ container = "auto"
                THEN ResolveAuto(1, [codec |-> codec, container |-> container])
                ELSE ResolveExplicit(codec, container))
    IN  [codec |-> selected.codec,
         container |-> selected.container,
         displayName |-> displayName(selected.codec, selected.container)]

\* saveFramesAsVideo, lines 84-113: the loop over codecPriority from its i-th
\* codec on, with the values selected so far.
RECURSIVE SelectAuto(_, _)
SelectAuto(i, selected) ==
    IF i > Len(codecPriority)
    THEN selected
    ELSE LET codecName == codecPriority[i]
             codecVariants == codecMap[codecName]
             byPriority == FirstByContainerPriority(codecVariants)
             any == FirstSupported(codecVariants)
         IN  IF byPriority # <<>>
             THEN [mimeType |-> byPriority[1].type, codec |-> codecName,
                   container |-> byPriority[1].container]
             ELSE IF any # <<>>
             THEN [mimeType |-> any[1].type, codec |-> codecName,
                   container |-> any[1].container]
             ELSE SelectAuto(i + 1, selected)

\* saveFramesAsVideo, lines 115-151: codec and container both given.
SelectExplicit(codec, container) ==
    LET requested ==
            [mimeType |-> "", codec |-> codec, container |-> container]
    IN  IF codec \notin DOMAIN codecMap THEN requested
        ELSE
        LET codecVariants == codecMap[codec]
            exactMatch == FindContainer(codecVariants, container)
            other == FirstOtherCodec(codec, container)
            any == FirstSupported(codecVariants)
        IN  IF exactMatch # <<>> /\ isTypeSupported(exactMatch[1].type)
            THEN [requested EXCEPT !.mimeType = exactMatch[1].type]
            ELSE IF other # <<>>
            THEN [mimeType |->
                      FindContainer(codecMap[other[1]], container)[1].type,
                  codec |-> other[1], container |-> container]
            ELSE IF any # <<>>
            THEN [mimeType |-> any[1].type, codec |-> codec,
                  container |-> any[1].container]
            ELSE requested

\* saveFramesAsVideo, lines 154-182: the final fallback, entered while no type
\* is selected.
SelectFallback(selected) ==
    LET fallback == FirstSupported(fallbackTypes)
    IN  IF selected.mimeType = "" /\ fallback # <<>>
        THEN [mimeType |-> fallback[1].type, codec |-> fallback[1].codec,
              container |-> fallback[1].container]
        ELSE selected

\* export const saveFramesAsVideo: the type handed to new MediaRecorder (line
\* 185) and the codec and container of the result (lines 222-226).
saveFramesAsVideo(codec, container) ==
    SelectFallback(
        IF codec = "auto" \/ container = "auto"
        THEN SelectAuto(1, [mimeType |-> "", codec |-> codec,
                            container |-> container])
        ELSE SelectExplicit(codec, container))

\* export const getSupportedCodecs
getSupportedCodecs ==
    <<[value |-> "av1", label |-> "AV1",
       supported |-> \E k \in 1..Len(av1Types) : isTypeSupported(av1Types[k])],
      [value |-> "hevc", label |-> "HEVC/H.265",
       supported |->
           \/ isTypeSupported("video/mp4; codecs=\"hev1.1.6.L93.B0\"")
           \/ isTypeSupported("video/mp4; codecs=\"hvc1.1.6.L93.B0\"")],
      [value |-> "h264", label |-> "H.264",
       supported |->
           \/ isTypeSupported("video/mp4; codecs=\"avc1.42E01E\"")
           \/ isTypeSupported("video/webm; codecs=\"h264\"")],
      [value |-> "vp9", label |-> "VP9",
       supported |->
           \/ isTypeSupported("video/webm; codecs=\"vp9\"")
           \/ isTypeSupported("video/mp4; codecs=\"vp09.00.10.08\"")]>>

\* The state of the component, which the negotiation neither reads nor writes.
component ==
    <<isStreaming, isPaused, delaySeconds, bufferSeconds, frameBuffer,
      currentDelayedFrame, captureIntervalRef, playbackIntervalRef, orphans,
      starting, starts, nextFrame, sinceCapture, errorMessage, camera,
      frameSources, lastExposed, export>>

\* The two functions applied to every preference pair and every outcome of the
\* support test that accepts at most MaxSupported types.
InitFormat ==
    /\ options \in [codec : CodecOptions, container : ContainerOptions]
    /\ supportedTypes \in {S \in SUBSET Types : Cardinality(S) <= MaxSupported}
    /\ resolvedFormat = <<>>
    /\ saveResult = <<>>
    /\ supportedCodecs = <<>>
    /\ resolvedBefore = {}
    /\ isStreaming = FALSE
    /\ isPaused = FALSE
    /\ delaySeconds = MinDelay
    /\ bufferSeconds = MinBuffer
    /\ frameBuffer = <<>>
    /\ currentDelayedFrame = NoFrame
    /\ captureIntervalRef = <<>>
    /\ playbackIntervalRef = <<>>
    /\ orphans = <<>>
    /\ starting = <<>>
    /\ starts = 0
    /\ nextFrame = 1
    /\ sinceCapture = 0
    /\ errorMessage = NoError
    /\ facingMode = "environment"
    /\ videoSource = NoSource
    /\ switching = <<>>
    /\ switches = 0
    /\ frameSources = <<>>
    /\ lastExposed = NoFrame
    /\ isSaving = FALSE
    /\ saving = <<>>

GetResolvedFormatCall ==
    /\ resolvedFormat' =
           <<getResolvedFormat(options.codec, options.container)>>
    /\ resolvedBefore' = resolvedBefore \cup
           {getResolvedFormat(options.codec, options.container)}
    /\ UNCHANGED <<options, supportedTypes, saveResult, supportedCodecs>>
    /\ UNCHANGED component

SaveFramesAsVideoCall ==
    /\ saveResult' = <<saveFramesAsVideo(options.codec, options.container)>>
    /\ UNCHANGED <<options, supportedTypes, resolvedFormat, supportedCodecs,
                   resolvedBefore>>
    /\ UNCHANGED component

GetSupportedCodecsCall ==
    /\ supportedCodecs' = <<getSupportedCodecs>>
    /\ UNCHANGED <<options, supportedTypes, resolvedFormat, saveResult,
                   resolvedBefore>>
    /\ UNCHANGED component

NextFormat ==
    \/ GetResolvedFormatCall
    \/ SaveFramesAsVideoCall
    \/ GetSupportedCodecsCall

SpecFormat == InitFormat /\ [][NextFormat]_vars

\* ------------------------------------------------------ saving the buffer
\* A variant of DrawnFrame that reads the frame from the buffer of the moment.
DrawnFrameFromBuffer(call) == At(frameBuffer, call.i)

\* saveFramesAsVideo, the loop that renders the frames: img.src = frames[i].
DrawnFrame(call) == At(call.frames, call.i)

\* The save button is pressed (it is disabled while isSaving is true):
\* saveCurrentBuffer hands the frameBuffer of its render to saveFramesAsVideo,
\* which runs up to its first await.  With an empty buffer it only shows a
\* toast.
SaveClick ==
    /\ ~isSaving
    /\ frameBuffer # <<>>
    /\ isSaving' = TRUE
    /\ saving' = <<[frames |-> frameBuffer, i |-> 0, drawn |-> <<>>]>>
    /\ UNCHANGED <<isStreaming, isPaused, delaySeconds, bufferSeconds,
                   frameBuffer, currentDelayedFrame, captureIntervalRef,
                   playbackIntervalRef, orphans, starting, starts, nextFrame,
                   sinceCapture, errorMessage, camera, frameSources,
                   lastExposed>>
    /\ UNCHANGED format

\* One round of the rendering loop: the next frame is loaded and drawn on the
\* canvas the recorder captures, then the loop waits for the frame interval.
SaveDraw ==
    /\ saving # <<>>
    /\ saving[1].i < Len(saving[1].frames)
    /\ saving' = <<[saving[1] EXCEPT
                       !.i = @ + 1,
                       !.drawn = Append(@, DrawnFrame(saving[1]))]>>
    /\ UNCHANGED <<isStreaming, isPaused, delaySeconds, bufferSeconds,
                   frameBuffer, currentDelayedFrame, captureIntervalRef,
                   playbackIntervalRef, orphans, starting, starts, nextFrame,
                   sinceCapture, errorMessage, camera, frameSources,
                   lastExposed, isSaving>>
    /\ UNCHANGED format

\* The loop is over: the recorder is stopped, its onstop handler resolves the
\* promise with the selected codec and container, and saveCurrentBuffer
\* reaches its finally block.
SaveResolve ==
    /\ saving # <<>>
    /\ saving[1].i = Len(saving[1].frames)
    /\ saving' = <<>>
    /\ isSaving' = FALSE
    /\ saveResult' = <<saveFramesAsVideo(options.codec, options.container)>>
    /\ UNCHANGED <<isStreaming, isPaused, delaySeconds, bufferSeconds,
                   frameBuffer, currentDelayedFrame, captureIntervalRef,
                   playbackIntervalRef, orphans, starting, starts, nextFrame,
                   sinceCapture, errorMessage, camera, frameSources,
                   lastExposed>>
    /\ UNCHANGED <<options, supportedTypes, resolvedFormat, supportedCodecs,
                   resolvedBefore>>

\* saveFramesAsVideo throws (no canvas context, the recorder rejects the type,
\* a frame fails to load): saveCurrentBuffer shows a toast and reaches its
\* finally block.
SaveReject ==
    /\ saving # <<>>
    /\ saving' = <<>>
    /\ isSaving' = FALSE
    /\ UNCHANGED <<isStreaming, isPaused, delaySeconds, bufferSeconds,
                   frameBuffer, currentDelayedFrame, captureIntervalRef,
                   playbackIntervalRef, orphans, starting, starts, nextFrame,
                   sinceCapture, errorMessage, camera, frameSources,
                   lastExposed>>
    /\ UNCHANGED format

\* The component in a run in which Start is pressed once, the camera answers,
\* and the buffer may be saved while frames are captured, the buffer-size
\* slider is moved and capture is stopped.
NextExport ==
    \/ StartClick /\ starts = 0
    \/ StartResolve(1)
    \/ \E b \in BufferChoices : SetBufferSeconds(b)
    \/ StopClick
    \/ CaptureTick
    \/ PlaybackTick
    \/ Advance
    \/ SaveClick
    \/ SaveDraw
    \/ SaveResolve
    \/ SaveReject

\* The delay, which saving never reads, stays at its shortest.
InitExport == Init /\ delaySeconds = MinDelay

SpecExport == InitExport /\ [][NextExport]_vars

\* ================================================================ claims

\* A delay or buffer-size change happens in this step.
Configured == delaySeconds' # delaySeconds \/ bufferSeconds' # bufferSeconds

\* In this step the playback interval held by the ref, or the orphan at index
\* i, runs playDelayedFrames past its isPaused test.
RefQuery == PlaybackTick /\ ~playbackIntervalRef[1].isPaused

OrphanQuery(i) == OrphanPlaybackTick(i) /\ ~orphans[i].isPaused

\* The delays of the queries this step runs (none when it runs no query).
QueryDelays ==
    {d \in DelayChoices :
        \/ RefQuery /\ playbackIntervalRef[1].seconds = d
        \/ \E i \in 1..Len(orphans) : OrphanQuery(i) /\ orphans[i].seconds = d}

\* C1: immediately after every ingest, whatever configure calls came before
\* it, the buffer is no longer than the capacity configured at that moment.
IngestWithinCapacity ==
    [][nextFrame' > nextFrame =>
           Len(frameBuffer') <= maxFrames(bufferSeconds')]_vars

\* C2: after any configure, the capacity used for eviction is at least
\* delaySteps (a buffer duration shorter than the delay is raised to it).
CapacityCoversDelay ==
    [][Configured =>
           maxFrames(bufferSeconds') >= framesToDelay(delaySeconds')]_vars

\* C3: a query that finds at least delaySteps frames exposes the frame whose
\* ingestion was the delaySteps-th most recent one (frame n - delaySteps + 1
\* after n ingestions, as frame #1 after 30 ingestions with delaySteps 30),
\* not a neighbour of it.
ExactlyDelayed(d) ==
    Len(frameBuffer) >= framesToDelay(d) =>
        currentDelayedFrame' = nextFrame - framesToDelay(d)

QueryExact == [][\A d \in QueryDelays : ExactlyDelayed(d)]_vars

QueryExactWitness ==
    /\ bufferSeconds >= delaySeconds
    /\ Len(frameBuffer) > framesToDelay(delaySeconds)
    /\ frameBuffer[1] > 1
    /\ currentDelayedFrame = nextFrame - framesToDelay(delaySeconds)
    /\ currentDelayedFrame = frameBuffer[Len(frameBuffer) + 1
                                             - framesToDelay(delaySeconds)]

\* C4: while the buffer still holds every frame ingested since it was empty,
\* a query of delay d >= 1 hands out no frame after each of the first d - 1
\* ingests and hands out frame 1, the first ingested, right after the d-th.
FillsThenFirst(d) ==
    Len(frameBuffer) = nextFrame - 1 =>
        /\ Len(frameBuffer) < framesToDelay(d) =>
               currentDelayedFrame' = currentDelayedFrame
        /\ Len(frameBuffer) = framesToDelay(d) => currentDelayedFrame' = 1

FirstFrameAfterDelay == [][\A d \in QueryDelays : FillsThenFirst(d)]_vars

FirstFrameAfterDelayWitness ==
    /\ Len(frameBuffer) = framesToDelay(delaySeconds)
    /\ Len(frameBuffer) = nextFrame - 1
    /\ maxFrames(bufferSeconds) >= framesToDelay(delaySeconds)
    /\ playbackIntervalRef # <<>>
    /\ playbackIntervalRef[1].seconds = delaySeconds
    /\ playbackIntervalRef[1].elapsed = 0
    /\ currentDelayedFrame = 1
    /\ orphans = <<>>

\* C5: a query that runs while the buffer is shorter than delaySteps leaves
\* the caller with "not yet available" (no frame), also when an earlier query
\* had exposed a frame.
NotYetAvailable(d) ==
    Len(frameBuffer) < framesToDelay(d) => currentDelayedFrame' = NoFrame

ShortBufferShowsNoFrame == [][\A d \in QueryDelays : NotYetAvailable(d)]_vars

\* C6: in every reachable state the buffer is no longer than the currently
\* configured capacity.
LengthWithinCapacity == Len(frameBuffer) <= maxFrames(bufferSeconds)

\* C7: a query leaves the buffer as it is, and running the same query again
\* with no ingest or configure in between exposes the same frame again.
SameAgain(d) ==
    /\ frameBuffer' = frameBuffer
    /\ DelayedFrame(frameBuffer', currentDelayedFrame', d)
           = currentDelayedFrame'
    /\ Len(frameBuffer) >= framesToDelay(d) =>
           currentDelayedFrame' \in {frameBuffer[k] : k \in 1..Len(frameBuffer)}

QueryIsPureRead == [][\A d \in QueryDelays : SameAgain(d)]_vars

QueryIsPureReadWitness ==
    /\ currentDelayedFrame # NoFrame
    /\ playbackIntervalRef # <<>>
    /\ playbackIntervalRef[1].elapsed = 0
    /\ ~playbackIntervalRef[1].isPaused
    /\ Len(frameBuffer) >= framesToDelay(playbackIntervalRef[1].seconds)
    /\ currentDelayedFrame =
           DelayedFrame(frameBuffer, NoFrame, playbackIntervalRef[1].seconds)

\* C8: a reconfiguration discards no frame retained at that moment, and
\* whatever an ingest removes it removes from the front: the frames kept are
\* the most recent ones, contiguous and in capture order.
IsSuffix(s, t) ==
    /\ Len(s) <= Len(t)
    /\ s = SubSeq(t, Len(t) - Len(s) + 1, Len(t))

EvictsFromFront ==
    [][/\ Configured => frameBuffer' = frameBuffer
       /\ nextFrame' > nextFrame =>
              /\ frameBuffer' # <<>>
              /\ IsSuffix(frameBuffer', Append(frameBuffer, nextFrame))]_vars

EvictsFromFrontWitness ==
    /\ Len(frameBuffer) = maxFrames(bufferSeconds)
    /\ frameBuffer[1] > 1
    /\ frameBuffer[Len(frameBuffer)] = nextFrame - 1
    /\ captureIntervalRef # <<>>
    /\ captureIntervalRef[1].seconds = bufferSeconds
    /\ captureIntervalRef[1].seconds < MaxBuffer

NoCaptureTickSkipped == CaptureRuns => sinceCapture <= Period

\* C11: pausing and then resuming leaves the buffer as it was: the step that
\* pauses, every step taken while capture is paused, and the step that resumes
\* add, remove and reorder no frame (a stop, which resets the buffer, aside).
PauseResumeKeepsBuffer ==
    [][(isStreaming /\ isStreaming' /\ (isPaused \/ isPaused'))
           => frameBuffer' = frameBuffer]_vars

\* Stop is pressed in this step.
Stopped == isStreaming /\ ~isStreaming'

\* C12: right after stopStream, from any prior state, the buffer is empty and
\* no delayed frame is exposed.
StopClearsBuffer ==
    [][Stopped => frameBuffer' = <<>> /\ currentDelayedFrame' = NoFrame]_vars

\* The one startStream call of the run resolved (it left no error message) and
\* capture has stopped since.
StopClearsBufferWitness ==
    /\ ~isStreaming
    /\ starts = 1
    /\ starting = <<>>
    /\ errorMessage = NoError
    /\ videoSource # NoSource
    /\ frameBuffer = <<>>
    /\ currentDelayedFrame = NoFrame

\* C13: once a switch to another camera has completed, the buffer holds no
\* frame of the previous camera and no query exposes one.
SwitchResetsBuffer ==
    [][/\ videoSource' # videoSource =>
              \A k \in 1..Len(frameBuffer') :
                  frameSources'[frameBuffer'[k]] = videoSource'
       /\ (QueryDelays # {} /\ currentDelayedFrame' # NoFrame) =>
              frameSources'[currentDelayedFrame'] = videoSource']_vars

\* ---------------------------------------------- claims on the negotiation
\* The codec and container of every result returned so far, by either function.
Returned ==
    {[codec |-> r.codec, container |-> r.container] :
        r \in Range(resolvedFormat) \cup Range(saveResult)}

\* Codec and container are both given explicitly.
Explicit == options.codec # "auto" /\ options.container # "auto"

\* Some variant the candidate table lists for the codec in the container
\* passes the support test.
HasSupported(codecName, containerName) ==
    \E v \in Range(codecMap[codecName]) :
        v.container = containerName /\ isTypeSupported(v.type)

\* C14: when no type of the candidate table and none of the last-resort list
\* passes the support test, the negotiation fails: no call returns a format,
\* for any preference pair.
NothingSupportedFails ==
    (\A type \in Types : ~isTypeSupported(type)) =>
        resolvedFormat = <<>> /\ saveResult = <<>>

\* The codecs other than the requested one that have a supported variant in
\* the requested container, in priority order.
OtherCodecs ==
    SelectSeq(codecPriority, LAMBDA codecName :
        codecName # options.codec /\ HasSupported(codecName, options.container))

\* C15: with codec and container both explicit and the exact combination
\* unsupported, the result is the first codec in priority order, other than the
\* requested one, with a supported variant in the requested container, in that
\* container.
ContainerWins ==
    (Explicit /\ ~HasSupported(options.codec, options.container)
        /\ OtherCodecs # <<>>) =>
        \A r \in Returned :
            r = [codec |-> OtherCodecs[1], container |-> options.container]

\* The variant that stands for the (codec, container) pair in the candidate
\* table: the first one the codec's list has for that container, if any.
ExactVariant(codecName, containerName) ==
    LET ks == {k \in 1..Len(codecMap[codecName]) :
                  codecMap[codecName][k].container = containerName}
    IN  IF ks = {} THEN <<>>
        ELSE <<codecMap[codecName][CHOOSE k \in ks : \A j \in ks : k <= j]>>

\* The exact variant of the requested pair passes the support test.
ExactSupported ==
    /\ Explicit
    /\ ExactVariant(options.codec, options.container) # <<>>
    /\ isTypeSupported(ExactVariant(options.codec, options.container)[1].type)

\* C16: with codec and container both explicit and the exact variant
\* supported, every result is exactly the requested codec and container,
\* whatever else is supported.
ExactMatchWins ==
    ExactSupported =>
        \A r \in Returned :
            r = [codec |-> options.codec, container |-> options.container]

\* Both functions returned the requested h264/mp4 although av1, which ranks
\* higher, is supported in mp4 as well.
ExactMatchWinsWitness ==
    /\ options = [codec |-> "h264", container |-> "mp4"]
    /\ isTypeSupported("video/mp4; codecs=\"avc1.42E01E\"")
    /\ isTypeSupported("video/mp4; codecs=\"av01.0.05M.08\"")
    /\ resolvedFormat # <<>>
    /\ saveResult # <<>>
    /\ resolvedFormat[1].codec = "h264"
    /\ saveResult[1].mimeType = "video/mp4; codecs=\"avc1.42E01E\""

\* The codecs with some supported variant, in priority order.
SupportedCodecs ==
    SelectSeq(codecPriority, LAMBDA codecName :
        \E containerName \in Range(containerPriority) :
            HasSupported(codecName, containerName))

\* The containers in which the codec has a supported variant, in priority
\* order.
SupportedContainers(codecName) ==
    SelectSeq(containerPriority, LAMBDA containerName :
        HasSupported(codecName, containerName))

\* C17: when codec or container is auto, the result is the highest-priority
\* codec that has any supported variant, in the highest-priority container in
\* which that codec has one; with only the vp9/webm type supported, auto/auto
\* resolves to (vp9, webm) with the label "VP9 (WEBM)".
AutoPicksByPriority ==
    /\ ((options.codec = "auto" \/ options.container = "auto")
            /\ SupportedCodecs # <<>>) =>
           \A r \in Returned :
               r = [codec |-> SupportedCodecs[1],
                    container |-> SupportedContainers(SupportedCodecs[1])[1]]
    /\ (/\ options = [codec |-> "auto", container |-> "auto"]
        /\ supportedTypes = {"video/webm; codecs=\"vp9\""}
        /\ resolvedFormat # <<>>) =>
           resolvedFormat[1].displayName = "VP9 (WEBM)"

\* No variant of the candidate table passes the support test.
NoTableVariant ==
    \A codecName \in Range(codecPriority) :
        \A v \in Range(codecMap[codecName]) : ~isTypeSupported(v.type)

\* C18: when no candidate-table variant is supported but some last-resort
\* format is, every result is the first supported entry of the last-resort
\* list (webm/vp8 before untagged webm), for every preference pair.
LastResortInOrder ==
    (NoTableVariant /\ FirstSupported(fallbackTypes) # <<>>) =>
        \A r \in Returned :
            r = [codec |-> FirstSupported(fallbackTypes)[1].codec,
                 container |-> FirstSupported(fallbackTypes)[1].container]

\* The positions of the supported variants in the codec's candidate list.
SupportedAt(codecName) ==
    {k \in 1..Len(codecMap[codecName]) :
        isTypeSupported(codecMap[codecName][k].type)}

\* C19: with codec and container both explicit, the exact combination
\* unsupported and no other codec supported in the requested container, the
\* result is the requested codec with the container of its first supported
\* variant in listed order.
RequestedCodecAnyContainer ==
    (/\ Explicit
     /\ ~HasSupported(options.codec, options.container)
     /\ OtherCodecs = <<>>
     /\ SupportedAt(options.codec) # {}) =>
        \A r \in Returned :
            r = [codec |-> options.codec,
                 container |->
                     codecMap[options.codec][
                         CHOOSE k \in SupportedAt(options.codec) :
                             \A j \in SupportedAt(options.codec) : k <= j
                     ].container]

\* Both functions fell back from the unsupported h264/mkv to h264 in webm,
\* the only supported type.
RequestedCodecAnyContainerWitness ==
    /\ options = [codec |-> "h264", container |-> "mkv"]
    /\ supportedTypes = {"video/webm; codecs=\"h264\""}
    /\ resolvedFormat # <<>>
    /\ saveResult # <<>>
    /\ resolvedFormat[1].container = "webm"
    /\ saveResult[1].mimeType = "video/webm; codecs=\"h264\""

\* Every encoder signature the negotiation knows, with its codec and container.
Signatures ==
    UNION {{[type |-> v.type, codec |-> codecName, container |-> v.container] :
               v \in Range(codecMap[codecName])} :
           codecName \in Range(codecPriority)}
        \cup Range(fallbackTypes)

\* C20: every result reports the codec and container of the signature that was
\* selected, and that signature passed the support test: never auto, never a
\* combination that was not found supported.
ReportsWhatWasSelected ==
    /\ \A r \in Range(saveResult) :
           \E g \in Signatures :
               /\ g.type = r.mimeType
               /\ isTypeSupported(g.type)
               /\ g.codec = r.codec
               /\ g.container = r.container
    /\ \A r \in Range(resolvedFormat) :
           \E g \in Signatures :
               /\ isTypeSupported(g.type)
               /\ g.codec = r.codec
               /\ g.container = r.container

\* C21: for each of av1, hevc, h264 and vp9, getSupportedCodecs reports the
\* codec as supported exactly when some candidate-table variant of that codec
\* passes the support test.
QueryMatchesTable ==
    \A r \in Range(supportedCodecs) :
        \A k \in 1..Len(codecPriority) :
            /\ r[k].value = codecPriority[k]
            /\ r[k].supported <=> SupportedAt(codecPriority[k]) # {}

CanonicalNames ==
    [av1 |-> "AV1", hevc |-> "HEVC", h264 |-> "H.264", vp9 |-> "VP9",
     vp8 |-> "VP8"]

\* The label "<CODEC> (<CONTAINER>)" of a codec and a container.
Label(codecName, containerName) ==
    (IF codecName \in DOMAIN CanonicalNames
     THEN CanonicalNames[codecName]
     ELSE toUpperCase(codecName))
        \o " (" \o toUpperCase(containerName) \o ")"

\* C23: the display label of every resolved format, and the format named
\* after an export, is "<CODEC> (<CONTAINER>)": AV1, HEVC, H.264, VP9 or VP8
\* for the known codecs, the raw identifier uppercased otherwise, and the
\* resolved container uppercased.
LabelIsCanonical ==
    /\ \A r \in Range(resolvedFormat) :
           r.displayName = Label(r.codec, r.container)
    /\ \A r \in Range(saveResult) :
           savedFormatName(r) = Label(r.codec, r.container)

\* With only untagged webm supported, auto/auto resolved to the codec
\* "unknown", whose label is the identifier uppercased, and an export ran.
LabelIsCanonicalWitness ==
    /\ options = [codec |-> "auto", container |-> "auto"]
    /\ supportedTypes = {"video/webm"}
    /\ resolvedFormat # <<>>
    /\ resolvedFormat[1].displayName = "UNKNOWN (WEBM)"
    /\ saveResult # <<>>
    /\ savedFormatName(saveResult[1]) = "UNKNOWN (WEBM)"

\* C24: in every reachable state the buffer is a contiguous suffix of the
\* frames ingested since the last reset, in capture order: it ends with the
\* frame ingested last and each frame is followed by the one ingested next.
BufferIsContiguousSuffix ==
    \A k \in 1..Len(frameBuffer) :
        frameBuffer[k] = nextFrame - 1 - Len(frameBuffer) + k

\* Frames were evicted from a full buffer and the buffer was enlarged since:
\* it holds fewer frames than its capacity and no longer starts at frame 1.
BufferIsContiguousSuffixWitness ==
    /\ isStreaming
    /\ Len(frameBuffer) >= maxFrames(MinBuffer)
    /\ Len(frameBuffer) < maxFrames(bufferSeconds)
    /\ frameBuffer[1] > 1
    /\ frameBuffer[Len(frameBuffer)] = nextFrame - 1

AnyVariantCounts ==
    /\ (Explicit /\ HasSupported(options.codec, options.container)) =>
           \A r \in Returned :
               r = [codec |-> options.codec, container |-> options.container]
    /\ (options.codec = "auto" \/ options.container = "auto") =>
           \A r \in Returned :
               (/\ r.codec \in Range(codecPriority)
                /\ SupportedContainers(r.codec) # <<>>) =>
                   r.container = SupportedContainers(r.codec)[1]

\* C27: for every preference pair, auto included, and every outcome of the
\* support test, getResolvedFormat returns the codec and the container that
\* saveFramesAsVideo selects and reports for the same input.
PreviewMatchesExport ==
    \A r \in Range(resolvedFormat) :
        \A e \in Range(saveResult) :
            r.codec = e.codec /\ r.container = e.container

\* The running intervals of one kind.
Timers(kind) == SelectSeq(Running, LAMBDA t : t.kind = kind)

\* C28: in every reachable state at most one capture timer and at most one
\* display timer are active, and none is while the component is not
\* streaming (after stop, and before a started camera has answered).
AtMostOneTimerOfEach ==
    /\ Len(Timers("capture")) <= 1
    /\ Len(Timers("playback")) <= 1
    /\ ~isStreaming => Running = <<>>

\* C29: while the delay and the buffer size stay unchanged and no reset
\* happens, the frames successive queries expose never go backward in capture
\* order, for any interleaving of capture and display ticks.
QueriesNeverGoBack ==
    [][(lastExposed # NoFrame /\ lastExposed' # NoFrame)
           => lastExposed' >= lastExposed]_vars

\* C30: the frames handed to an export are the buffer content at the moment
\* the export is requested, and whatever happens while the export runs, the
\* frames it has encoded so far are the first frames of that content, in its
\* order.
ExportIsSnapshot ==
    [][/\ (saving = <<>> /\ saving' # <<>>) =>
              /\ saving'[1].frames = frameBuffer
              /\ saving'[1].drawn = <<>>
       /\ (saving # <<>> /\ saving' # <<>>) =>
              /\ saving'[1].frames = saving[1].frames
              /\ saving'[1].drawn =
                     SubSeq(saving[1].frames, 1, Len(saving'[1].drawn))
              /\ Len(saving'[1].drawn) >= Len(saving[1].drawn)]_vars

\* An export has drawn all its frames although capture went on, evicting the
\* oldest of them from the buffer, and was stopped before the export ended.
ExportIsSnapshotWitness ==
    /\ saving # <<>>
    /\ Len(saving[1].frames) = maxFrames(MinBuffer)
    /\ saving[1].frames[1] = 1
    /\ saving[1].drawn = saving[1].frames
    /\ ~isStreaming
    /\ frameBuffer = <<>>

====
